---- MODULE Spec2Model ----
(***************************************************************************)
(* synapse: a defensive value-coercion function (gnify/synapse).           *)
(*                                                                         *)
(* The repository holds two lineages of the same routine:                  *)
(*   src/src/index.ts      -> synapse, safesynapse                         *)
(*   src/unnamed/part_000  -> synapse_part000, safesynapse_part000         *)
(* Both are modelled.  A JavaScript string is a sequence of one-character  *)
(* strings; a JavaScript value is a tagged record.  The runtime services   *)
(* the code calls (String.prototype.trim, Map.get, RegExp.test, BigInt,    *)
(* JSON.parse) are modelled by what they compute.                          *)
(***************************************************************************)
EXTENDS Integers, Sequences, FiniteSets, TLC

VARIABLES impl, value, out, safeOut

vars == <<impl, value, out, safeOut>>

(***************************************************************************)
(* Characters                                                              *)
(***************************************************************************)
QUOTE == "\""
BSLASH == "\\"
\* U+00A0 NO-BREAK SPACE: white space for trim() and \s, not for JSON.
NBSP == "NBSP"
\* U+0008 BACKSPACE, produced by the JSON escape \b.
BSP == "BSP"

Digits == {"0", "1", "2", "3", "4", "5", "6", "7", "8", "9"}

DigitVal(c) ==
  CASE c = "0" -> 0 [] c = "1" -> 1 [] c = "2" -> 2 [] c = "3" -> 3
    [] c = "4" -> 4 [] c = "5" -> 5 [] c = "6" -> 6 [] c = "7" -> 7
    [] c = "8" -> 8 [] c = "9" -> 9
    [] c \in {"a", "A"} -> 10 [] c \in {"b", "B"} -> 11
    [] c \in {"c", "C"} -> 12 [] c \in {"d", "D"} -> 13
    [] c \in {"e", "E"} -> 14 [] c \in {"f", "F"} -> 15
    [] OTHER -> 99

HexDigits == Digits \cup {"a", "b", "c", "d", "e", "f", "A", "B", "C", "D", "E", "F"}

\* WhiteSpace and LineTerminator of ECMAScript, as far as the alphabet goes:
\* what trim() strips and what \s matches.
JsSpace == {" ", "\t", "\n", "\r", "\f", NBSP}

\* The white space of the JSON grammar.
JsonSpace == {" ", "\t", "\n", "\r"}

\* Characters below U+0020, which a JSON string may not hold unescaped.
ControlChars == {"\t", "\n", "\r", "\f", BSP}

Upper == <<"A", "B", "C", "D", "E", "F", "G", "H", "I", "J", "K", "L", "M",
           "N", "O", "P", "Q", "R", "S", "T", "U", "V", "W", "X", "Y", "Z">>
Lower == <<"a", "b", "c", "d", "e", "f", "g", "h", "i", "j", "k", "l", "m",
           "n", "o", "p", "q", "r", "s", "t", "u", "v", "w", "x", "y", "z">>

LowerChar(c) ==
  IF \E i \in 1..26 : Upper[i] = c
  THEN Lower[CHOOSE i \in 1..26 : Upper[i] = c]
  ELSE c

\* String.prototype.toLowerCase
toLowerCase(s) == [i \in 1..Len(s) |-> LowerChar(s[i])]

\* The character with code point 16^3*h1 + 16^2*h2 + 16*h3 + h4.
CodePoint(h) ==
  4096 * DigitVal(h[1]) + 256 * DigitVal(h[2]) + 16 * DigitVal(h[3]) + DigitVal(h[4])

CharOfCode(h) ==
  LET cp == CodePoint(h) IN
  CASE cp = 34 -> QUOTE
    [] cp = 92 -> BSLASH
    [] cp = 32 -> " "
    [] cp = 58 -> ":"
    [] cp = 95 -> "_"
    [] cp = 160 -> NBSP
    [] cp \in 48..57 -> <<"0", "1", "2", "3", "4", "5", "6", "7", "8", "9">>[cp - 47]
    [] cp \in 65..90 -> Upper[cp - 64]
    [] cp \in 97..122 -> Lower[cp - 96]
    [] OTHER -> "U+" \o toLowerCase(h)[1] \o toLowerCase(h)[2]
                     \o toLowerCase(h)[3] \o toLowerCase(h)[4]

\* s[i], or a non-character where JavaScript gives undefined
\* (codePointAt / indexing out of range).
At(s, i) == IF i \in 1..Len(s) THEN s[i] ELSE "undefined"

\* String.prototype.slice(from, to) with 1-based inclusive bounds.
Slice(s, from, to) == SubSeq(s, from, to)

RECURSIVE TrimStart(_)
TrimStart(s) ==
  IF Len(s) > 0 /\ s[1] \in JsSpace THEN TrimStart(Tail(s)) ELSE s

RECURSIVE TrimEnd(_)
TrimEnd(s) ==
  IF Len(s) > 0 /\ s[Len(s)] \in JsSpace
  THEN TrimEnd(SubSeq(s, 1, Len(s) - 1))
  ELSE s

\* String.prototype.trim
trim(s) == TrimEnd(TrimStart(s))

(***************************************************************************)
(* JavaScript values                                                       *)
(***************************************************************************)
\* One record shape for every value: t is the tag, n/k a number n * 10^k
\* (or the integer n of a bigint, or 0/1 of a boolean), s the characters of
\* a string, a the elements of an array, m the own properties of an object
\* (a function from key to value).
Blank == [t |-> "undefined", n |-> 0, k |-> 0, s |-> <<>>, a |-> <<>>, m |-> <<>>]

Undefined == Blank
Null == [Blank EXCEPT !.t = "null"]
Bool(b) == [Blank EXCEPT !.t = "boolean", !.n = IF b THEN 1 ELSE 0]
Num(n, k) == [Blank EXCEPT !.t = "number", !.n = n, !.k = k]
NaN == [Blank EXCEPT !.t = "NaN"]
PosInfinity == [Blank EXCEPT !.t = "Infinity"]
NegInfinity == [Blank EXCEPT !.t = "-Infinity"]
BigIntV(n) == [Blank EXCEPT !.t = "bigint", !.n = n]
Str(s) == [Blank EXCEPT !.t = "string", !.s = s]
Arr(a) == [Blank EXCEPT !.t = "array", !.a = a]
Obj(m) == [Blank EXCEPT !.t = "object", !.m = m]

\* The typeof operator.
TypeOf(v) ==
  CASE v.t \in {"number", "NaN", "Infinity", "-Infinity"} -> "number"
    [] v.t \in {"array", "object", "null"} -> "object"
    [] OTHER -> v.t

(***************************************************************************)
(* JSON.parse (ECMA-404 grammar, ECMAScript InternalizeJSONProperty-free   *)
(* form: no reviver is passed by the code)                                 *)
(***************************************************************************)
\* A parse step: ok, the value read, and the index after it.
Fail == [ok |-> FALSE, v |-> Undefined, i |-> 0]
Got(v, i) == [ok |-> TRUE, v |-> v, i |-> i]

RECURSIVE SkipWs(_, _)
SkipWs(s, i) ==
  IF i <= Len(s) /\ s[i] \in JsonSpace THEN SkipWs(s, i + 1) ELSE i

\* The first index >= i that holds no decimal digit.
RECURSIVE DigitsEnd(_, _)
DigitsEnd(s, i) ==
  IF i <= Len(s) /\ s[i] \in Digits THEN DigitsEnd(s, i + 1) ELSE i

\* The number written by the digits s[from..to] in the given base.
RECURSIVE ToInt(_, _, _, _)
ToInt(s, from, to, base) ==
  IF to < from THEN 0
  ELSE base * ToInt(s, from, to - 1, base) + DigitVal(s[to])

RECURSIVE Pow10(_)
Pow10(e) == IF e <= 0 THEN 1 ELSE 10 * Pow10(e - 1)

\* n * 10^k with the trailing zeros of n moved into k, so that equal numbers
\* have equal representations.
RECURSIVE Normalize(_, _)
Normalize(n, k) ==
  IF n = 0 THEN Num(0, 0)
  ELSE IF n % 10 = 0 THEN Normalize(n \div 10, k + 1)
  ELSE Num(n, k)

\* number = [ "-" ] int [ frac ] [ exp ], read in stages: p0 is the index of
\* the first digit, p1 the index after int, p2 the index after frac, e0 the
\* index of the first exponent digit and p3 the index after exp.
NumValue(s, neg, p0, p1, p2, e0, p3) ==
  LET hasFrac == At(s, p1) = "."
      hasExp == At(s, p2) \in {"e", "E"}
      fracLen == IF hasFrac THEN p2 - (p1 + 1) ELSE 0
      mant == ToInt(s, p0, p1 - 1, 10) * Pow10(fracLen)
                + (IF hasFrac THEN ToInt(s, p1 + 1, p2 - 1, 10) ELSE 0)
      exp == IF hasExp THEN ToInt(s, e0, p3 - 1, 10) ELSE 0
      k == (IF At(s, p2 + 1) = "-" THEN 0 - exp ELSE exp) - fracLen
  IN  IF p1 = p0 \/ (hasFrac /\ p2 = p1 + 1) \/ (hasExp /\ p3 = e0)
      THEN Fail
      ELSE Got(Normalize(IF neg THEN 0 - mant ELSE mant, k), p3)

NumExp(s, neg, p0, p1, p2, e0) ==
  NumValue(s, neg, p0, p1, p2, e0,
           IF At(s, p2) \in {"e", "E"} THEN DigitsEnd(s, e0) ELSE p2)

NumFrac(s, neg, p0, p1, p2) ==
  NumExp(s, neg, p0, p1, p2,
         IF At(s, p2 + 1) \in {"+", "-"} THEN p2 + 2 ELSE p2 + 1)

NumInt(s, neg, p0, p1) ==
  NumFrac(s, neg, p0, p1, IF At(s, p1) = "." THEN DigitsEnd(s, p1 + 1) ELSE p1)

ParseNumber(s, i) ==
  IF At(s, i) = "-"
  THEN NumInt(s, TRUE, i + 1, IF At(s, i + 1) = "0" THEN i + 2 ELSE DigitsEnd(s, i + 1))
  ELSE NumInt(s, FALSE, i, IF At(s, i) = "0" THEN i + 1 ELSE DigitsEnd(s, i))

\* The character an escape \c stands for ("" when \c is no escape).
Escape(c) ==
  CASE c = QUOTE -> QUOTE
    [] c = BSLASH -> BSLASH
    [] c = "/" -> "/"
    [] c = "b" -> BSP
    [] c = "f" -> "\f"
    [] c = "n" -> "\n"
    [] c = "r" -> "\r"
    [] c = "t" -> "\t"
    [] OTHER -> ""

\* The characters of a JSON string, read from index i (after the opening
\* quote) up to the closing quote, escapes decoded.
RECURSIVE ScanString(_, _, _)
ScanString(s, i, acc) ==
  IF i > Len(s) THEN Fail
  ELSE IF s[i] = QUOTE THEN Got(Str(acc), i + 1)
  ELSE IF s[i] \in ControlChars THEN Fail
  ELSE IF s[i] = BSLASH THEN
    IF At(s, i + 1) = "u" THEN
      IF i + 5 <= Len(s) /\ \A j \in (i + 2)..(i + 5) : s[j] \in HexDigits
      THEN ScanString(s, i + 6, Append(acc, CharOfCode(SubSeq(s, i + 2, i + 5))))
      ELSE Fail
    ELSE IF i + 1 <= Len(s) /\ Escape(s[i + 1]) # ""
      THEN ScanString(s, i + 2, Append(acc, Escape(s[i + 1])))
      ELSE Fail
  ELSE ScanString(s, i + 1, Append(acc, s[i]))

ParseString(s, i) == ScanString(s, i + 1, <<>>)

\* CreateDataProperty: a repeated key keeps the last value.
Put(m, key, v) == [x \in DOMAIN m \cup {key} |-> IF x = key THEN v ELSE m[x]]

StartsWith(s, i, word) ==
  i + Len(word) - 1 <= Len(s) /\ SubSeq(s, i, i + Len(word) - 1) = word

RECURSIVE ParseValue(_, _)
RECURSIVE ParseElements(_, _, _)
RECURSIVE ElementRead(_, _, _)
RECURSIVE ElementNext(_, _, _)
RECURSIVE ParseMembers(_, _, _)
RECURSIVE MemberKey(_, _, _)
RECURSIVE MemberColon(_, _, _, _)
RECURSIVE MemberRead(_, _, _, _)
RECURSIVE MemberNext(_, _, _)

\* An object from the index j after its brace and white space.
ObjectAt(s, j) ==
  IF At(s, j) = "}" THEN Got(Obj(<<>>), j + 1) ELSE ParseMembers(s, j, <<>>)

\* An array from the index j after its bracket and white space.
ArrayAt(s, j) ==
  IF At(s, j) = "]" THEN Got(Arr(<<>>), j + 1) ELSE ParseElements(s, j, <<>>)

\* value = object / array / string / number / true / false / null,
\* read at index i (white space already skipped).
ParseValue(s, i) ==
  CASE At(s, i) = "{" -> ObjectAt(s, SkipWs(s, i + 1))
    [] At(s, i) = "[" -> ArrayAt(s, SkipWs(s, i + 1))
    [] At(s, i) = QUOTE -> ParseString(s, i)
    [] At(s, i) = "-" \/ At(s, i) \in Digits -> ParseNumber(s, i)
    [] StartsWith(s, i, <<"t", "r", "u", "e">>) -> Got(Bool(TRUE), i + 4)
    [] StartsWith(s, i, <<"f", "a", "l", "s", "e">>) -> Got(Bool(FALSE), i + 5)
    [] StartsWith(s, i, <<"n", "u", "l", "l">>) -> Got(Null, i + 4)
    [] OTHER -> Fail

\* The elements of an array from index i on, up to the closing bracket:
\* an element r is read, then a comma or the bracket at index j.
ParseElements(s, i, acc) == ElementRead(s, ParseValue(s, i), acc)

ElementRead(s, r, acc) ==
  IF ~r.ok THEN Fail ELSE ElementNext(s, SkipWs(s, r.i), Append(acc, r.v))

ElementNext(s, j, acc) ==
  IF At(s, j) = "," THEN ParseElements(s, SkipWs(s, j + 1), acc)
  ELSE IF At(s, j) = "]" THEN Got(Arr(acc), j + 1)
  ELSE Fail

\* The members of an object from index i on, up to the closing brace: a key
\* is read, the colon at index c, a value r, then a comma or the brace at j.
ParseMembers(s, i, m) ==
  IF At(s, i) # QUOTE THEN Fail ELSE MemberKey(s, ParseString(s, i), m)

MemberKey(s, key, m) ==
  IF ~key.ok THEN Fail ELSE MemberColon(s, key.v.s, SkipWs(s, key.i), m)

MemberColon(s, name, c, m) ==
  IF At(s, c) # ":" THEN Fail
  ELSE MemberRead(s, name, ParseValue(s, SkipWs(s, c + 1)), m)

MemberRead(s, name, r, m) ==
  IF ~r.ok THEN Fail ELSE MemberNext(s, SkipWs(s, r.i), Put(m, name, r.v))

MemberNext(s, j, m) ==
  IF At(s, j) = "," THEN ParseMembers(s, SkipWs(s, j + 1), m)
  ELSE IF At(s, j) = "}" THEN Got(Obj(m), j + 1)
  ELSE Fail

\* The whole text is one value between optional white space.
WholeText(s, r) == IF r.ok /\ SkipWs(s, r.i) = Len(s) + 1 THEN r ELSE Fail

\* JSON.parse(text): ok is FALSE where JSON.parse throws a SyntaxError.
JSONParse(s) == WholeText(s, ParseValue(s, SkipWs(s, 1)))

(***************************************************************************)
(* Regular expressions                                                     *)
(***************************************************************************)
\* \uXXXX as written in the text.
Esc(h) == <<BSLASH, "u">> \o h

\* (?:c|\\uXXXX) for each spelling of the escape the pattern accepts.
Alt(c, hexes) == {<<c>>} \cup {Esc(h) : h \in hexes}

RxUnderscore == Alt("_", {<<"0", "0", "5", "f">>, <<"0", "0", "5", "F">>})
RxC == Alt("c", {<<"0", "0", "6", "3">>})
RxN == Alt("n", {<<"0", "0", "6", "e">>, <<"0", "0", "6", "E">>})
RxO == Alt("o", {<<"0", "0", "6", "f">>, <<"0", "0", "6", "F">>})
RxP == Alt("p", {<<"0", "0", "7", "0">>})
RxR == Alt("r", {<<"0", "0", "7", "2">>})
RxS == Alt("s", {<<"0", "0", "7", "3">>})
RxT == Alt("t", {<<"0", "0", "7", "4">>})
RxU == Alt("u", {<<"0", "0", "7", "5">>})

\* The index after a match of pat[j..] at s[i..], 0 when there is none.
RECURSIVE MatchAt(_, _, _, _)
MatchAt(s, i, pat, j) ==
  IF j > Len(pat) THEN i
  ELSE IF \E alt \in pat[j] : StartsWith(s, i, alt)
  THEN LET alt == CHOOSE x \in pat[j] : StartsWith(s, i, x)
       IN  MatchAt(s, i + Len(alt), pat, j + 1)
  ELSE 0

RECURSIVE SkipSpace(_, _)
SkipSpace(s, i) ==
  IF i <= Len(s) /\ s[i] \in JsSpace THEN SkipSpace(s, i + 1) ELSE i

\* /"<pat>"\s*:/.test(s): unanchored, so any starting quote may match.
KeyRxTest(s, pat) ==
  \E i \in 1..Len(s) :
    /\ s[i] = QUOTE
    /\ LET e == MatchAt(s, i + 1, pat, 1)
       IN  /\ e # 0
           /\ At(s, e) = QUOTE
           /\ At(s, SkipSpace(s, e + 1)) = ":"

suspectProtoRx(s) ==
  KeyRxTest(s, <<RxUnderscore, RxUnderscore, RxP, RxR, RxO, RxT, RxO,
                 RxUnderscore, RxUnderscore>>)

suspectConstructorRx(s) ==
  KeyRxTest(s, <<RxC, RxO, RxN, RxS, RxT, RxR, RxU, RxC, RxT, RxO, RxR>>)

\* /^\s*-?\d/
leadingDigitRegex(s) ==
  LET i == SkipSpace(s, 1)
      j == IF At(s, i) = "-" THEN i + 1 ELSE i
  IN  At(s, j) \in Digits

\* Mutant: /^-?\d.*n$/i, a pattern that lets anything stand between the first
\* digit and the marker.
BIGINT_REGEX_loose(s) ==
  LET i == IF At(s, 1) = "-" THEN 2 ELSE 1
  IN  At(s, i) \in Digits /\ Len(s) > i /\ s[Len(s)] \in {"n", "N"}

\* /^-?\d+n$/i
BIGINT_REGEX(s) ==
  LET i == IF At(s, 1) = "-" THEN 2 ELSE 1
      j == DigitsEnd(s, i)
  IN  j > i /\ j = Len(s) /\ s[j] \in {"n", "N"}

(***************************************************************************)
(* Runtime services                                                        *)
(***************************************************************************)
\* BigInt(string): StringToBigInt.  White space is trimmed, the empty string
\* is 0n, a signed decimal or an unsigned 0x/0o/0b literal is its value, and
\* anything else throws a SyntaxError (ok = FALSE).
StringToBigInt(t) ==
  LET body == IF At(t, 1) \in {"+", "-"} THEN Tail(t) ELSE t
      Radix(base) == Len(t) > 2 /\ \A i \in 3..Len(t) : DigitVal(t[i]) < base
      dec == ToInt(body, 1, Len(body), 10)
  IN  IF t = <<>> THEN [ok |-> TRUE, v |-> BigIntV(0)]
      ELSE IF body # <<>> /\ \A i \in 1..Len(body) : body[i] \in Digits
        THEN [ok |-> TRUE, v |-> BigIntV(IF At(t, 1) = "-" THEN 0 - dec ELSE dec)]
      ELSE IF At(t, 1) = "0" /\ At(t, 2) \in {"x", "X"} /\ Radix(16)
        THEN [ok |-> TRUE, v |-> BigIntV(ToInt(t, 3, Len(t), 16))]
      ELSE IF At(t, 1) = "0" /\ At(t, 2) \in {"o", "O"} /\ Radix(8)
        THEN [ok |-> TRUE, v |-> BigIntV(ToInt(t, 3, Len(t), 8))]
      ELSE IF At(t, 1) = "0" /\ At(t, 2) \in {"b", "B"} /\ Radix(2)
        THEN [ok |-> TRUE, v |-> BigIntV(ToInt(t, 3, Len(t), 2))]
      ELSE [ok |-> FALSE, v |-> Undefined]

BigInt(s) == StringToBigInt(trim(s))

\* Map.prototype.get: undefined for a key the map does not hold.
MapGet(map, key) == IF key \in DOMAIN map THEN map[key] ELSE Undefined

(***************************************************************************)
(* Options and outcomes                                                    *)
(***************************************************************************)
\* Options = { strict?: boolean }: the strict field is true, false or absent
\* (reads as undefined).
OptionValues == {"undefined", "false", "true"}
Options == [strict : OptionValues]

\* ToBoolean(options.strict)
Truthy(x) == x = "true"

\* { ...options, strict: true }
SpreadStrict(options) == [options EXCEPT !.strict = "true"]

\* The messages of the errors the code throws.
InvalidJSON == "[synapse] Invalid JSON"
InvalidBigInt == "[synapse] Invalid BigInt: "
PrototypePollution == "[synapse] Possible prototype pollution"
\* The SyntaxError JSON.parse throws.
ParseError == "JSON.parse: SyntaxError"

\* How a call ends.  step names the statement that ended it, text the text
\* the error message quotes, parser whether JSON.parse was invoked, warned
\* whether console.warn was called.
Return(v, step, parser, warned) ==
  [kind |-> "return", val |-> v, err |-> "", text |-> <<>>,
   step |-> step, parser |-> parser, warned |-> warned]

Throw(err, text, step, parser, warned) ==
  [kind |-> "throw", val |-> Undefined, err |-> err, text |-> text,
   step |-> step, parser |-> parser, warned |-> warned]

(***************************************************************************)
(* Shared tables and steps (the same text in both lineages)                *)
(***************************************************************************)
S_true == <<"t", "r", "u", "e">>
S_false == <<"f", "a", "l", "s", "e">>
S_null == <<"n", "u", "l", "l">>
S_undefined == <<"u", "n", "d", "e", "f", "i", "n", "e", "d">>
S_NaN == <<"N", "a", "N">>
S_Infinity == <<"I", "n", "f", "i", "n", "i", "t", "y">>
S_NegInfinity == <<"-">> \o S_Infinity
S_proto == <<"_", "_", "p", "r", "o", "t", "o", "_", "_">>

KNOWN_VALUES ==
  [key \in {S_true, S_false, S_null, S_undefined, S_NaN, S_Infinity, S_NegInfinity} |->
     CASE key = S_true -> Bool(TRUE)
       [] key = S_false -> Bool(FALSE)
       [] key = S_null -> Undefined
       [] key = S_undefined -> Undefined
       [] key = S_NaN -> NaN
       [] key = S_Infinity -> PosInfinity
       [] key = S_NegInfinity -> NegInfinity]

\* The outcome of the bigint step given the result r of BigInt().
bigintResult(val, tvalue, options, r) ==
  IF r.ok THEN Return(r.v, "bigint", FALSE, FALSE)
  ELSE IF Truthy(options.strict) THEN Throw(InvalidBigInt, tvalue, "bigint", FALSE, FALSE)
  ELSE Return(val, "bigint", FALSE, FALSE)

\* Mutant: only strict mode attempts the bigint conversion.
bigintStep_strictOnly(val, tvalue, options) ==
  IF ~Truthy(options.strict) THEN Return(val, "bigint", FALSE, FALSE)
  ELSE bigintResult(val, tvalue, options, BigInt(Slice(tvalue, 1, Len(tvalue) - 1)))

\* if (BIGINT_REGEX.test(_value)) { try { return BigInt(_value.slice(0, -1)) }
\*   catch { if (options.strict) throw ...; return value } }
bigintStep(val, tvalue, options) ==
  bigintResult(val, tvalue, options, BigInt(Slice(tvalue, 1, Len(tvalue) - 1)))

\* Mutant: the fallback returns the trimmed candidate (return _value).
fallbackStep_trimmed(val, options) ==
  IF Truthy(options.strict) THEN Throw(InvalidJSON, <<>>, "fallback", FALSE, FALSE)
  ELSE Return(Str(trim(val.s)), "fallback", FALSE, FALSE)

\* if (options.strict) throw new SyntaxError("[synapse] Invalid JSON");
\* return value;
fallbackStep(val, options) ==
  IF Truthy(options.strict) THEN Throw(InvalidJSON, <<>>, "fallback", FALSE, FALSE)
  ELSE Return(val, "fallback", FALSE, FALSE)

\* firstChar is [, { or ", or the candidate starts like a number.
structuralCandidate(tvalue) ==
  \/ At(tvalue, 1) \in {"[", "{", QUOTE}
  \/ leadingDigitRegex(tvalue)

(***************************************************************************)
(* src/src/index.ts                                                        *)
(***************************************************************************)
\* return JSON.parse(value), or the catch block when it throws; r is the
\* result of JSON.parse.
jsonResult(val, options, r) ==
  IF r.ok THEN Return(r.v, "json", TRUE, FALSE)
  ELSE IF Truthy(options.strict) THEN Throw(ParseError, <<>>, "json", TRUE, FALSE)
  ELSE Return(val, "json", TRUE, FALSE)

\* The try/catch around the pollution scan and JSON.parse(value).
jsonStep(val, options) ==
  IF Truthy(options.strict) /\ (suspectProtoRx(val.s) \/ suspectConstructorRx(val.s))
  THEN Throw(PrototypePollution, <<>>, "json", FALSE, FALSE)
  ELSE jsonResult(val, options, JSONParse(val.s))

\* The two quoted-string fast paths: [hit, v].
quotedStep(tvalue) ==
  LET len == Len(tvalue) IN
  IF len = 2 /\ At(tvalue, 1) = QUOTE
  THEN [hit |-> TRUE, step |-> "emptyQuoted", v |-> Str(<<>>)]
  ELSE IF At(tvalue, 1) = QUOTE /\ At(tvalue, len) = QUOTE
  THEN [hit |-> TRUE, step |-> "quoted", v |-> Str(Slice(tvalue, 2, len - 1))]
  ELSE [hit |-> FALSE, step |-> "", v |-> Undefined]

\* knownValue of the literal fast path (undefined when it does not apply).
knownStep(tvalue) ==
  IF Len(tvalue) <= 10 THEN MapGet(KNOWN_VALUES, tvalue) ELSE Undefined

\* Mutant: the gate lets null and undefined through to the string steps
\* (typeof value !== "string" && value != null).
typeGate_nullish(val) == TypeOf(val) # "string" /\ val.t \notin {"null", "undefined"}

\* if (typeof value !== "string") return value;
typeGate(val) == TypeOf(val) # "string"

\* The steps of synapse on a string, tvalue being _value = value.trim().
synapseString(val, tvalue, options) ==
  IF knownStep(tvalue) # Undefined
  THEN Return(knownStep(tvalue), "known", FALSE, FALSE)
  ELSE IF quotedStep(tvalue).hit
  THEN Return(quotedStep(tvalue).v, quotedStep(tvalue).step, FALSE, FALSE)
  ELSE IF BIGINT_REGEX(tvalue) THEN bigintStep(val, tvalue, options)
  ELSE IF structuralCandidate(tvalue) THEN jsonStep(val, options)
  ELSE fallbackStep(val, options)

synapse(val, options) ==
  IF typeGate(val) THEN Return(val, "typeGate", FALSE, FALSE)
  ELSE synapseString(val, trim(val.s), options)

\* Mutant: { strict: true, ...options }, so a strict field of options wins.
safesynapse_optionsWin(val, options) ==
  synapse(val, IF options.strict = "undefined" THEN SpreadStrict(options) ELSE options)

safesynapse(val, options) == synapse(val, SpreadStrict(options))

(***************************************************************************)
(* src/unnamed/part_000                                                    *)
(***************************************************************************)
RECURSIVE cleanObject(_)
cleanObject(obj) ==
  IF TypeOf(obj) # "object" \/ obj.t = "null" THEN obj
  ELSE IF obj.t = "array"
  THEN Arr([i \in 1..Len(obj.a) |-> cleanObject(obj.a[i])])
  ELSE Obj([key \in DOMAIN obj.m \ {S_proto} |-> cleanObject(obj.m[key])])

\* Mutant: the constructor pattern is not scanned for.
checkPrototypePollution_protoOnly(s) == suspectProtoRx(s)

checkPrototypePollution(s) == suspectProtoRx(s) \/ suspectConstructorRx(s)

\* The literal fast path: [hit, v].
knownStep_part000(tvalue) ==
  LET lowerValue == toLowerCase(tvalue)
      knownValue == MapGet(KNOWN_VALUES, lowerValue)
  IN  IF Len(tvalue) <= 10 /\ (\/ knownValue # Undefined
                                \/ lowerValue = S_null
                                \/ lowerValue = S_undefined)
      THEN [hit |-> TRUE, v |-> knownValue]
      ELSE [hit |-> FALSE, v |-> Undefined]

\* return JSON.parse(_value), or the catch block when it throws; r is the
\* result of JSON.parse.
quotedResult_part000(val, options, r) ==
  IF r.ok THEN Return(r.v, "quoted", TRUE, FALSE)
  ELSE IF Truthy(options.strict) THEN Throw(InvalidJSON, <<>>, "quoted", TRUE, FALSE)
  ELSE Return(val, "quoted", TRUE, FALSE)

\* if (_value[0] === '"') { ... }: every exit of the block.
quotedStep_part000(val, tvalue, options) ==
  IF Truthy(options.strict) /\ (At(tvalue, Len(tvalue)) # QUOTE \/ Len(tvalue) < 2)
  THEN Throw(InvalidJSON, <<>>, "quoted", FALSE, FALSE)
  ELSE IF Len(tvalue) = 2 /\ At(tvalue, 2) = QUOTE
  THEN Return(Str(<<>>), "emptyQuoted", FALSE, FALSE)
  ELSE quotedResult_part000(val, options, JSONParse(tvalue))

\* const parsed = JSON.parse(_value); return cleanObject(parsed), or the
\* catch block when either throws; r is the result of JSON.parse, warned
\* whether the scan matched.
jsonResult_part000(val, options, r, warned) ==
  IF warned /\ Truthy(options.strict)
  THEN Throw(PrototypePollution, <<>>, "json", FALSE, TRUE)
  ELSE IF r.ok THEN Return(cleanObject(r.v), "json", TRUE, warned)
  ELSE IF Truthy(options.strict) THEN Throw(ParseError, <<>>, "json", TRUE, warned)
  ELSE Return(val, "json", TRUE, warned)

\* The try/catch around the pollution scan, JSON.parse(_value) and cleanObject.
jsonStep_part000(val, tvalue, options) ==
  jsonResult_part000(val, options, JSONParse(tvalue), checkPrototypePollution(tvalue))

\* The steps of synapse on a string, tvalue being _value = value.trim().
synapseString_part000(val, tvalue, options) ==
  IF knownStep_part000(tvalue).hit
  THEN Return(knownStep_part000(tvalue).v, "known", FALSE, FALSE)
  ELSE IF At(tvalue, 1) = QUOTE THEN quotedStep_part000(val, tvalue, options)
  ELSE IF BIGINT_REGEX(tvalue) THEN bigintStep(val, tvalue, options)
  ELSE IF structuralCandidate(tvalue) THEN jsonStep_part000(val, tvalue, options)
  ELSE fallbackStep(val, options)

synapse_part000(val, options) ==
  IF typeGate(val) THEN Return(val, "typeGate", FALSE, FALSE)
  ELSE synapseString_part000(val, trim(val.s), options)

safesynapse_part000(val, options) == synapse_part000(val, SpreadStrict(options))

(***************************************************************************)
(* Inputs                                                                  *)
(***************************************************************************)
\* Longest string over Alphabet that is tried exhaustively.
MaxLen == 3

Alphabet == {QUOTE, "1", "n", " ", "-", "a"}

ShortStrings == UNION {[1..n -> Alphabet] : n \in 0..MaxLen}

Samples == {
  \* true
  <<"t", "r", "u", "e">>,
  \* false
  <<"f", "a", "l", "s", "e">>,
  \* null
  <<"n", "u", "l", "l">>,
  \* undefined
  <<"u", "n", "d", "e", "f", "i", "n", "e", "d">>,
  \* NaN
  <<"N", "a", "N">>,
  \* Infinity
  <<"I", "n", "f", "i", "n", "i", "t", "y">>,
  \* -Infinity
  <<"-", "I", "n", "f", "i", "n", "i", "t", "y">>,
  \*   true  
  <<" ", " ", "t", "r", "u", "e", " ", " ">>,
  \* <NBSP>null 
  <<NBSP, "n", "u", "l", "l", " ">>,
  \*  NaN<TAB>
  <<" ", "N", "a", "N", "\t">>,
  \* True
  <<"T", "r", "u", "e">>,
  \* NULL
  <<"N", "U", "L", "L">>,
  \* "hello"
  <<QUOTE, "h", "e", "l", "l", "o", QUOTE>>,
  \* "a\nb"
  <<QUOTE, "a", BSLASH, "n", "b", QUOTE>>,
  \* "\u0061"
  <<QUOTE, BSLASH, "u", "0", "0", "6", "1", QUOTE>>,
  \* "a"b"
  <<QUOTE, "a", QUOTE, "b", QUOTE>>,
  \*  ""<NBSP>
  <<" ", QUOTE, QUOTE, NBSP>>,
  \* "\"
  <<QUOTE, BSLASH, QUOTE>>,
  \* "abc
  <<QUOTE, "a", "b", "c">>,
  \* 42
  <<"4", "2">>,
  \* -7
  <<"-", "7">>,
  \* 1e2
  <<"1", "e", "2">>,
  \* 12x3n
  <<"1", "2", "x", "3", "n">>,
  \* 1xn
  <<"1", "x", "n">>,
  \* 123n
  <<"1", "2", "3", "n">>,
  \* -5N
  <<"-", "5", "N">>,
  \* 007n
  <<"0", "0", "7", "n">>,
  \*  12n 
  <<" ", "1", "2", "n", " ">>,
  \* [1,2,3]
  <<"[", "1", ",", "2", ",", "3", "]">>,
  \* {"a":1}
  <<"{", QUOTE, "a", QUOTE, ":", "1", "}">>,
  \* <NBSP>{"a":1}
  <<NBSP, "{", QUOTE, "a", QUOTE, ":", "1", "}">>,
  \* {"__proto__":{"polluted":true},"a":1}
  <<"{", QUOTE, "_", "_", "p", "r", "o", "t", "o", "_", "_", QUOTE, ":", "{", QUOTE, "p", "o", "l", "l", "u", "t", "e", "d", QUOTE, ":", "t", "r", "u", "e", "}", ",", QUOTE, "a", QUOTE, ":", "1", "}">>,
  \* {"__proto__":{"x":1}}
  <<"{", QUOTE, "_", "_", "p", "r", "o", "t", "o", "_", "_", QUOTE, ":", "{", QUOTE, "x", QUOTE, ":", "1", "}", "}">>,
  \* [{"__proto__":1,"b":2}]
  <<"[", "{", QUOTE, "_", "_", "p", "r", "o", "t", "o", "_", "_", QUOTE, ":", "1", ",", QUOTE, "b", QUOTE, ":", "2", "}", "]">>,
  \* {"a":{"__proto__":1,"b":[2]}}
  <<"{", QUOTE, "a", QUOTE, ":", "{", QUOTE, "_", "_", "p", "r", "o", "t", "o", "_", "_", QUOTE, ":", "1", ",", QUOTE, "b", QUOTE, ":", "[", "2", "]", "}", "}">>,
  \* {"\u005f\u005Fproto\u005f\u005f":1,"a":1}
  <<"{", QUOTE, BSLASH, "u", "0", "0", "5", "f", BSLASH, "u", "0", "0", "5", "F", "p", "r", "o", "t", "o", BSLASH, "u", "0", "0", "5", "f", BSLASH, "u", "0", "0", "5", "f", QUOTE, ":", "1", ",", QUOTE, "a", QUOTE, ":", "1", "}">>,
  \* {"constructor":1}
  <<"{", QUOTE, "c", "o", "n", "s", "t", "r", "u", "c", "t", "o", "r", QUOTE, ":", "1", "}">>,
  \* {"constructor" :{"a":1}}
  <<"{", QUOTE, "c", "o", "n", "s", "t", "r", "u", "c", "t", "o", "r", QUOTE, " ", ":", "{", QUOTE, "a", QUOTE, ":", "1", "}", "}">>,
  \* {"__proto__":
  <<"{", QUOTE, "_", "_", "p", "r", "o", "t", "o", "_", "_", QUOTE, ":">>,
  \* {"constructor":x
  <<"{", QUOTE, "c", "o", "n", "s", "t", "r", "u", "c", "t", "o", "r", QUOTE, ":", "x">>,
  \* [1,"__proto__" :
  <<"[", "1", ",", QUOTE, "_", "_", "p", "r", "o", "t", "o", "_", "_", QUOTE, " ", ":">>,
  \* 1 "__proto__":1n
  <<"1", " ", QUOTE, "_", "_", "p", "r", "o", "t", "o", "_", "_", QUOTE, ":", "1", "n">>,
  \* 1 "__proto__":1
  <<"1", " ", QUOTE, "_", "_", "p", "r", "o", "t", "o", "_", "_", QUOTE, ":", "1">>,
  \* {"proto":1}
  <<"{", QUOTE, "p", "r", "o", "t", "o", QUOTE, ":", "1", "}">>,
  \* [1,
  <<"[", "1", ",">>,
  \* {"a":1,}
  <<"{", QUOTE, "a", QUOTE, ":", "1", ",", "}">>,
  \* abc
  <<"a", "b", "c">>,
  \* hello world
  <<"h", "e", "l", "l", "o", " ", "w", "o", "r", "l", "d">>,
  \*    
  <<" ", " ", " ">>,
  \* 1000000.001
  <<"1", "0", "0", "0", "0", "0", "0", ".", "0", "0", "1">>,
  \* -
  <<"-">>,
  \* n
  <<"n">> }

StringInputs == ShortStrings \cup Samples

\* Inputs that are not strings.
NonStrings ==
  << Undefined, Null, Bool(TRUE), Bool(FALSE), Num(42, 0), NaN, BigIntV(5),
     Arr(<<Num(1, 0), Str(<<"1", "n">>)>>),
     Obj([key \in {<<"a">>, S_proto} |-> Str(S_true)]) >>

Inputs == {Str(s) : s \in StringInputs} \cup {NonStrings[i] : i \in 1..Len(NonStrings)}

Impls == {"index", "part000"}

(***************************************************************************)
(* The state machine: one input, and the calls made on it                  *)
(***************************************************************************)
\* No call made yet.
NoCall ==
  [kind |-> "none", val |-> Undefined, err |-> "", text |-> <<>>,
   step |-> "", parser |-> FALSE, warned |-> FALSE]

Init ==
  /\ impl \in Impls
  /\ value \in Inputs
  /\ out = [o \in Options |-> NoCall]
  /\ safeOut = [o \in Options |-> NoCall]

\* synapse(value, o) of src/src/index.ts
CallSynapse(o) ==
  /\ impl = "index"
  /\ out[o] = NoCall
  /\ out' = [out EXCEPT ![o] = synapse(value, o)]
  /\ UNCHANGED <<impl, value, safeOut>>

\* safesynapse(value, o) of src/src/index.ts
CallSafeSynapse(o) ==
  /\ impl = "index"
  /\ safeOut[o] = NoCall
  /\ safeOut' = [safeOut EXCEPT ![o] = safesynapse(value, o)]
  /\ UNCHANGED <<impl, value, out>>

\* synapse(value, o) of src/unnamed/part_000
CallSynapsePart000(o) ==
  /\ impl = "part000"
  /\ out[o] = NoCall
  /\ out' = [out EXCEPT ![o] = synapse_part000(value, o)]
  /\ UNCHANGED <<impl, value, safeOut>>

\* safesynapse(value, o) of src/unnamed/part_000
CallSafeSynapsePart000(o) ==
  /\ impl = "part000"
  /\ safeOut[o] = NoCall
  /\ safeOut' = [safeOut EXCEPT ![o] = safesynapse_part000(value, o)]
  /\ UNCHANGED <<impl, value, out>>

Next ==
  \E o \in Options :
    \/ CallSynapse(o)
    \/ CallSafeSynapse(o)
    \/ CallSynapsePart000(o)
    \/ CallSafeSynapsePart000(o)

Spec == Init /\ [][Next]_vars

(***************************************************************************)
(* Vocabulary of the properties                                            *)
(***************************************************************************)
StrictOn == [strict |-> "true"]
StrictOff == [strict |-> "false"]
StrictAbsent == [strict |-> "undefined"]
Lenient == {o \in Options : ~Truthy(o.strict)}

IsString == TypeOf(value) = "string"
Trimmed == trim(value.s)

\* The text each lineage hands to JSON.parse at the structural step.
ParsedText == IF impl = "index" THEN value.s ELSE Trimmed

\* What the caller observes of a call.
Observed(o) == <<o.kind, o.val, o.err, o.text>>

\* A call that could not coerce its string: the bigint parser rejected the
\* digits, the JSON parser rejected the text, or no branch matched.
Uncoerced(o) ==
  \/ o.step = "fallback"
  \/ o.step = "bigint" /\ ~BigInt(Slice(Trimmed, 1, Len(Trimmed) - 1)).ok
  \/ o.parser /\ ~JSONParse(IF o.step = "json" THEN ParsedText ELSE Trimmed).ok

\* C1: in lenient mode no call raises, and a call that cannot coerce its
\* string returns the input string itself, untrimmed.
C1_LenientNeverRaises ==
  \A o \in Lenient :
    out[o] # NoCall =>
      /\ out[o].kind = "return"
      /\ (IsString /\ Uncoerced(out[o])) => out[o].val = value

\* A padded string that no branch matches came back with its padding.
C1_Witness ==
  /\ IsString /\ Trimmed # value.s /\ Trimmed # <<>>
  /\ out[StrictOff] # NoCall
  /\ out[StrictOff].step = "fallback"
  /\ out[StrictOff].val = value

\* C6: a non-string input comes back unchanged from synapse and safesynapse
\* under every options value, at the type gate, with no later step applied.
C6_NonStringPassthrough ==
  \A o \in Options :
    ~IsString =>
      /\ out[o] # NoCall => out[o] = Return(value, "typeGate", FALSE, FALSE)
      /\ safeOut[o] # NoCall => safeOut[o] = Return(value, "typeGate", FALSE, FALSE)

\* An object input went through the strict entry point and came back.
C6_Witness ==
  /\ value.t = "object"
  /\ safeOut[StrictOff] # NoCall /\ safeOut[StrictOff].val = value
  /\ out[StrictAbsent] # NoCall /\ out[StrictAbsent].val = value

\* C7: safesynapse(v, o) has the outcome of synapse(v, {strict: true}),
\* whatever the strict field of o.
C7_SafeForcesStrict ==
  \A o \in Options :
    (safeOut[o] # NoCall /\ out[StrictOn] # NoCall) =>
      Observed(safeOut[o]) = Observed(out[StrictOn])

\* safesynapse given strict: false raised where synapse with strict: false
\* returned.
C7_Witness ==
  /\ safeOut[StrictOff] # NoCall /\ safeOut[StrictOff].kind = "throw"
  /\ out[StrictOn] # NoCall /\ out[StrictOn].kind = "throw"
  /\ out[StrictOff] # NoCall /\ out[StrictOff].kind = "return"

\* The calls made so far: through synapse with each options value, and
\* through safesynapse.
Calls == {out[o] : o \in Options} \cup {safeOut[o] : o \in Options}
StrictCalls == {out[StrictOn]} \cup {safeOut[o] : o \in Options}
LenientCalls == {out[o] : o \in Lenient}

\* The text holds one of the two pollution key patterns.
Suspect == suspectProtoRx(value.s) \/ suspectConstructorRx(value.s)

DigitRunN ==
  LET i == IF At(Trimmed, 1) = "-" THEN 2 ELSE 1 IN
  /\ Len(Trimmed) > i
  /\ \A j \in i..(Len(Trimmed) - 1) : Trimmed[j] \in Digits
  /\ Trimmed[Len(Trimmed)] \in {"n", "N"}

\* The value of the digit run of a candidate that is a DigitRunN.
DigitRunValue ==
  IF At(Trimmed, 1) = "-"
  THEN 0 - ToInt(Trimmed, 2, Len(Trimmed) - 1, 10)
  ELSE ToInt(Trimmed, 1, Len(Trimmed) - 1, 10)

\* Bigint-looking text whose body is no integer: it starts like a number and
\* ends with the n marker, with something other than digits in between.
BrokenBigint ==
  /\ IsString
  /\ leadingDigitRegex(Trimmed)
  /\ At(Trimmed, Len(Trimmed)) \in {"n", "N"}
  /\ ~DigitRunN

\* C8 as stated: in strict mode a bigint-looking text with a rejected body
\* fails with the Invalid BigInt error naming the text.
C8_Original ==
  \A x \in StrictCalls :
    (x # NoCall /\ BrokenBigint) =>
      x.kind = "throw" /\ x.err = InvalidBigInt /\ x.text = Trimmed

\* C8 amended: in strict mode such a text fails at the structural JSON step,
\* with the parser's error, or with the pollution error when it also holds a
\* pollution key pattern, and never with Invalid BigInt; and a text matching
\* ^-?\d+n$ (n or N) returns the bigint of its digit run in every mode.
C8_BrokenBigintIsParseError ==
  /\ \A x \in StrictCalls :
       (x # NoCall /\ BrokenBigint) =>
         /\ x.kind = "throw"
         /\ x.step = "json"
         /\ x.err = IF Suspect THEN PrototypePollution ELSE ParseError
  /\ \A x \in Calls :
       (x # NoCall /\ IsString /\ DigitRunN) =>
         x = Return(BigIntV(DigitRunValue), "bigint", FALSE, FALSE)

\* Digits interrupted by a non-digit raised the parser's error, not the
\* Invalid BigInt error, through both strict entry points.
C8_Witness ==
  /\ BrokenBigint /\ ~Suspect
  /\ out[StrictOn] # NoCall /\ out[StrictOn].err = ParseError
  /\ safeOut[StrictOff] # NoCall /\ safeOut[StrictOff].err = ParseError

\* C10: a strict call that returns r is matched by every lenient call on the
\* same input returning r; where the two differ, the strict call raised and
\* the lenient call returned the input string or a parsed value.
C10_StrictOnlyAddsFailures ==
  \A o \in Lenient :
    (out[StrictOn] # NoCall /\ out[o] # NoCall) =>
      /\ out[StrictOn].kind = "return" =>
           out[o].kind = "return" /\ out[o].val = out[StrictOn].val
      /\ Observed(out[StrictOn]) # Observed(out[o]) =>
           /\ out[StrictOn].kind = "throw"
           /\ out[o].kind = "return"
           /\ out[o].val = value \/ (out[o].parser /\ out[o].step = "json")

\* A strict call and a lenient call returned the same parsed array.
C10_Witness ==
  /\ IsString
  /\ out[StrictOn] # NoCall /\ out[StrictOff] # NoCall
  /\ out[StrictOn].kind = "return" /\ out[StrictOn].step = "json"
  /\ out[StrictOn].val.t = "array" /\ out[StrictOn].val.a # <<>>
  /\ out[StrictOff].val = out[StrictOn].val

RECURSIVE NoProtoKey(_)
\* No object of the value has an own key __proto__, at any depth.
NoProtoKey(v) ==
  CASE v.t = "array" -> \A i \in 1..Len(v.a) : NoProtoKey(v.a[i])
    [] v.t = "object" ->
         S_proto \notin DOMAIN v.m /\ \A key \in DOMAIN v.m : NoProtoKey(v.m[key])
    [] OTHER -> TRUE

\* C2: a lenient call whose string reaches the structural JSON step and
\* parses returns, without raising, a value with no __proto__ key at any
\* depth.
C2_ProtoKeyStripped ==
  \A x \in LenientCalls :
    (x # NoCall /\ IsString /\ x.step = "json" /\ JSONParse(ParsedText).ok) =>
      x.kind = "return" /\ NoProtoKey(x.val)

\* C4: a string whose trimmed form is a known-literal spelling returns the
\* mapped value in every mode (null and undefined: the absent value).
C4_KnownLiterals ==
  \A x \in Calls :
    (x # NoCall /\ IsString /\ Trimmed \in DOMAIN KNOWN_VALUES) =>
      x.kind = "return" /\ x.val = KNOWN_VALUES[Trimmed]

\* The trimmed candidate is taken by none of the steps 3 to 6.
NoFastPath ==
  /\ Trimmed \notin DOMAIN KNOWN_VALUES
  /\ Trimmed # <<QUOTE, QUOTE>>
  /\ ~(Len(Trimmed) > 2 /\ Trimmed[1] = QUOTE /\ Trimmed[Len(Trimmed)] = QUOTE)
  /\ ~DigitRunN

\* C5: a string the JSON parser rejects and that no fast path takes makes
\* the strict call raise and the lenient call return it unchanged.
C5_MalformedFallsBack ==
  (IsString /\ ~JSONParse(value.s).ok /\ NoFastPath) =>
    /\ \A x \in StrictCalls : x # NoCall => x.kind = "throw"
    /\ \A x \in LenientCalls : x # NoCall => x.kind = "return" /\ x.val = value

\* C9: for a non-empty input, the empty string is returned exactly for a
\* candidate of two quotes,
\* and a longer candidate between two quotes returns the characters between
\* them verbatim, without JSON.parse and without raising.
C9_QuotedFastPaths ==
  \A x \in Calls :
    (x # NoCall /\ IsString /\ value.s # <<>>) =>
      /\ (x.kind = "return" /\ x.val = Str(<<>>)) <=> Trimmed = <<QUOTE, QUOTE>>
      /\ (Len(Trimmed) > 2 /\ Trimmed[1] = QUOTE /\ Trimmed[Len(Trimmed)] = QUOTE) =>
           /\ x.kind = "return"
           /\ x.val = Str(Slice(Trimmed, 2, Len(Trimmed) - 1))
           /\ ~x.parser

====
